---- MODULE Spec2Model ----
(***************************************************************************)
(* Entry lifecycle and detection reconciliation of the Dalan backend.      *)
(*                                                                         *)
(* The model follows two create implementations (the FastAPI router        *)
(* api/routers/entries.py and the Lambda handler                           *)
(* backend/handlers/entries/create_entry.py), the SQS consumer             *)
(* backend/services/yolo_processor.py, the merged read get_entry and the   *)
(* delete handler, over the three Supabase tables, the image bucket and    *)
(* the SQS queue.  Every call to an external collaborator (a table insert, *)
(* update or select, an S3 put, an SQS send, the detector) is one step; the *)
(* local computation that follows it belongs to the same step.  Each       *)
(* external call may fail; the repository functions turn that failure into *)
(* a None return, which is what the handlers see.                          *)
(*                                                                         *)
(* Units: a confidence is kept in thousandths (0.85 is 850); an            *)
(* avg_confidence, a percentage rounded to one decimal, is kept in tenths  *)
(* of a percent (85.0 is 850).  Box corners x1..y2 are copied through      *)
(* unchanged by every path and are left out of the rows.                   *)
(***************************************************************************)
EXTENDS Integers, Sequences, FiniteSets, Bags, TLC

(* ------------------------------ bounds --------------------------------- *)
MaxDet == 1
MaxDeliveries == 1
MaxBatch == 1
EventBatch == 2

(* --------------------------- program constants ------------------------- *)
NullUrl == <<"null", 0>>
CRACK_TYPES == <<"alligator", "longitudinal", "transverse", "pothole">>
PlaceholderUrl == <<"https://placehold.co/400x300/cccccc/666666/png?text=Upload+Failed", 0>>
NoColumn == "absent"
Severities == {"minor", "major"}

(* ------------------------------ inputs --------------------------------- *)
(* The model follows create requests for one entry id: every row of the three *)
(* tables and every job is keyed by the uuid4 id that create draws, so       *)
(* requests for different ids write disjoint rows.                           *)
RequestIds == {1}
Impls == {"router", "lambda"}
SeverityInputs == {"minor", "critical"}
CoordinateInputs == {"[10, 20]", "[200, 10]", "[10]", "7", "oops"}
ModelNames == <<"alligator", "pothole">>
BoxConfidence == <<850, 700>>
ClassIds == 0 .. Len(ModelNames) - 1
ModelName(class_id) == ModelNames[class_id + 1]

Box(c) == [class_id |-> c, confidence |-> BoxConfidence[c + 1]]

RECURSIVE SeqsUpTo(_, _)
SeqsUpTo(S, n) ==
    IF n = 0 THEN {<<>>}
    ELSE LET shorter == SeqsUpTo(S, n - 1)
         IN  shorter \cup {Append(s, x) : s \in {t \in shorter : Len(t) = n - 1}, x \in S}

(* An image is identified with the boxes the model reports for it. *)
Images == SeqsUpTo({Box(c) : c \in ClassIds}, MaxDet)
PlaceholderImage == <<>>

(* ------------------------------ json.loads ----------------------------- *)
JsonLoads(s) ==
    CASE s = "[10, 20]"  -> [ok |-> TRUE,  is_list |-> TRUE,  items |-> <<10, 20>>]
      [] s = "[200, 10]" -> [ok |-> TRUE,  is_list |-> TRUE,  items |-> <<200, 10>>]
      [] s = "[10]"      -> [ok |-> TRUE,  is_list |-> TRUE,  items |-> <<10>>]
      [] s = "7"         -> [ok |-> TRUE,  is_list |-> FALSE, items |-> <<7>>]
      [] OTHER           -> [ok |-> FALSE, is_list |-> FALSE, items |-> <<>>]

(* Outcome of the coordinate block of create: "ok", "json" (JSONDecodeError) *)
(* or "value" (the ValueError raised for a non-list or a wrong length).      *)
ParseCoordinates(s) ==
    LET v == JsonLoads(s)
    IN  IF ~v.ok THEN [outcome |-> "json", coords |-> <<>>]
        ELSE IF ~v.is_list \/ Len(v.items) # 2 THEN [outcome |-> "value", coords |-> <<>>]
        ELSE [outcome |-> "ok", coords |-> v.items]

(* validate_coordinates of utils/validators.py *)
validate_coordinates(coordinates) ==
    /\ Len(coordinates) = 2
    /\ coordinates[1] >= -180 /\ coordinates[1] <= 180
    /\ coordinates[2] >= -90 /\ coordinates[2] <= 90

(* ------------------- classify_image: detection reducer ------------------ *)
RECURSIVE SumSeq(_)
SumSeq(s) == IF s = <<>> THEN 0 ELSE Head(s) + SumSeq(Tail(s))

(* round(x, 1) of Python on the quotient a / b: nearest, ties to even *)
RoundHalfEven(a, b) ==
    LET q == a \div b
        r == a % b
    IN  IF 2 * r < b THEN q
        ELSE IF 2 * r > b THEN q + 1
        ELSE IF q % 2 = 0 THEN q ELSE q + 1

LabelIndex(types, label) ==
    IF \E i \in 1 .. Len(types) : types[i].label = label
    THEN CHOOSE i \in 1 .. Len(types) : types[i].label = label
    ELSE 0

(* lines 156-164: count the label and remember its confidence; a dict keeps *)
(* its keys in insertion order, so crack_types is a sequence                *)
CountBox(types, label, confidence) ==
    LET i == LabelIndex(types, label)
    IN  IF i > 0
        THEN [types EXCEPT ![i] = [label |-> label, count |-> @.count + 1,
                                   confidences |-> Append(@.confidences, confidence)]]
        ELSE Append(types, [label |-> label, count |-> 1, confidences |-> <<confidence>>])

RECURSIVE CountBoxes(_, _)
CountBoxes(boxes, types) ==
    IF boxes = <<>> THEN types
    ELSE CountBoxes(Tail(boxes), CountBox(types, ModelName(Head(boxes).class_id), Head(boxes).confidence))

(* lines 220-227 *)
FormatCrackTypes(types) ==
    [i \in 1 .. Len(types) |->
        [label |-> types[i].label, count |-> types[i].count,
         avg_confidence |-> RoundHalfEven(SumSeq(types[i].confidences), Len(types[i].confidences))]]

(* lines 199-207 *)
DetectionOf(box) ==
    [confidence |-> box.confidence, class_id |-> box.class_id, label |-> ModelName(box.class_id)]

(* a fallback that reports nothing found *)
FallbackResultEmpty ==
    [total_cracks |-> 0, crack_types |-> <<>>, detections |-> <<>>, classified_image_url |-> <<"null", 0>>]

(* a fallback that names an annotated picture *)
FallbackResultAnnotated ==
    [total_cracks |-> 1,
     crack_types |-> <<[label |-> "alligator", count |-> 1, avg_confidence |-> 850]>>,
     detections |-> <<[confidence |-> 850, class_id |-> 0, label |-> "alligator"]>>,
     classified_image_url |-> <<"classified", 0>>]

(* lines 104-117 and 240-253: the dict returned when the model is not loaded *)
(* or inference raises                                                       *)
FallbackResult ==
    [total_cracks |-> 1,
     crack_types |-> <<[label |-> "alligator", count |-> 1, avg_confidence |-> 850]>>,
     detections |-> <<[confidence |-> 850, class_id |-> 0, label |-> "alligator"]>>,
     classified_image_url |-> NullUrl]

ClassifiedUrl == <<"classified", 0>>

(* classify_image(image_path, user_id); available is USE_YOLO and model and *)
(* no exception during inference, annotated is what save_image returned for *)
(* the annotated picture                                                    *)
classify_image(boxes, available, annotated) ==
    IF ~available THEN FallbackResult
    ELSE [total_cracks |-> Len(boxes),
          crack_types |-> FormatCrackTypes(CountBoxes(boxes, <<>>)),
          detections |-> [i \in 1 .. Len(boxes) |-> DetectionOf(boxes[i])],
          classified_image_url |-> IF Len(boxes) > 0 THEN annotated ELSE NullUrl]

EmptyResult ==
    [total_cracks |-> 0, crack_types |-> <<>>, detections |-> <<>>, classified_image_url |-> NullUrl]

(* max(crack_types.keys(), key=count): the first key with the largest count *)
MaxByCount(types) ==
    LET i == CHOOSE k \in 1 .. Len(types) :
                 /\ \A j \in 1 .. Len(types) : types[j].count <= types[k].count
                 /\ \A j \in 1 .. k - 1 : types[j].count < types[k].count
    IN  types[i].label

(* create, lines 183-193 (router 180-190) *)
PrimaryCrackType(result) ==
    IF result.total_cracks > 0
    THEN IF Len(result.crack_types) > 0 THEN MaxByCount(result.crack_types) ELSE "unknown"
    ELSE "no_cracks"

(* ------------------------------- state --------------------------------- *)
VARIABLES
    entries,      \* road_cracks table: entry id -> row
    detections,   \* crack_detections table: bag of rows
    summaries,    \* detection_summaries table: bag of rows
    queue,        \* messages sent to the YOLO queue (a bag of jobs)
    req,          \* the create requests: locals and position of each
    consumer,     \* the invocation of the queue consumer: locals and position
    delivered,    \* number of records handed to the consumer so far
    deleted,      \* entry ids removed by delete_entry
    reducer,      \* one call of a detection reducer: what the model returned and the result
    loader        \* the model cache of a worker process and the get_model calls in it

vars == <<entries, detections, summaries, queue, req, consumer, delivered, deleted, reducer, loader>>

Stores == <<entries, detections, summaries>>

NoEntry ==
    [id |-> 0, title |-> "", description |-> "", location |-> "", coordinates |-> <<>>,
     severity |-> "", type |-> "", image_url |-> NullUrl, classified_image_url |-> NullUrl,
     user_id |-> "", created_at |-> ""]

IdleRequest ==
    [pc |-> "idle", impl |-> "", severity |-> "", coordinates |-> "", image |-> <<>>,
     image_url |-> NullUrl, coords |-> <<>>, new_entry |-> NoEntry,
     detector |-> "", detection_result |-> EmptyResult, dix |-> 0,
     status |-> 0, detection_status |-> "", queued |-> FALSE]

IdleConsumer ==
    [pc |-> "idle", records |-> <<>>, rix |-> 0, detection_result |-> EmptyResult, dix |-> 0,
     processed_count |-> 0, failed_count |-> 0, statusCode |-> 0]

IdleReducer == [pc |-> "idle", results |-> <<>>, fn |-> "", out |-> EmptyResult, primary_crack_type |-> ""]

(* _model_cache = None and no call of get_model under way.  A model handle  *)
(* is the number of the load that made it; None is 0.  started, downloads,  *)
(* loads and late count the calls begun, the downloads and loads that       *)
(* succeeded, and the downloads made after a load had succeeded.            *)
Threads == {1, 2}
None == 0
IdleCall == [pc |-> "idle", model_path |-> "", returned |-> None]
IdleLoader ==
    [cache |-> None, calls |-> [t \in Threads |-> IdleCall],
     started |-> 0, downloads |-> 0, loads |-> 0, late |-> 0]

Init ==
    /\ entries = <<>>
    /\ detections = EmptyBag
    /\ summaries = EmptyBag
    /\ queue = EmptyBag
    /\ req = [r \in RequestIds |-> IdleRequest]
    /\ consumer = IdleConsumer
    /\ delivered = 0
    /\ deleted = {}
    /\ reducer = IdleReducer
    /\ loader = IdleLoader

(* ------------------------- the three tables ---------------------------- *)
(* an upsert written as delete-then-insert: the old rows of the entry go    *)
(* even when the insert is refused                                          *)
InsertReplacing(table, row, accepted) ==
    LET kept == {old \in BagToSet(table) : old.road_crack_id # row.road_crack_id}
        rest == [old \in kept |-> CopiesIn(old, table)]
    IN  IF accepted THEN rest (+) SetToBag({row}) ELSE rest

(* insert(...).execute(): the row is appended when the store accepts it *)
Insert(table, row, accepted) == IF accepted THEN table (+) SetToBag({row}) ELSE table

RowsOf(table, entry_id) == {row \in BagToSet(table) : row.road_crack_id = entry_id}

RECURSIVE CountRows(_, _)
CountRows(table, rows) ==
    IF rows = {} THEN 0
    ELSE LET row == CHOOSE x \in rows : TRUE
         IN  CopiesIn(row, table) + CountRows(table, rows \ {row})

NumDetections(entry_id) == CountRows(detections, RowsOf(detections, entry_id))
NumSummaries(entry_id) == CountRows(summaries, RowsOf(summaries, entry_id))

(* update(update_data).eq("id", entry_id): None when the call fails or no row matches *)
UpdateAccepted(entry_id, accepted) == accepted /\ entry_id \in DOMAIN entries

(* an update that files the annotated picture under image_url *)
UpdatedRowOverwritingImage(row, update_data) ==
    [row EXCEPT !.type = update_data.type,
                !.image_url =
                    IF update_data.classified_image_url # NullUrl
                    THEN update_data.classified_image_url ELSE @]

(* update(update_data).eq("id", entry_id) with the keys "type" and, when the *)
(* result has one, "classified_image_url" (router 193-197, 234-235)          *)
UpdatedRow(row, update_data) ==
    [row EXCEPT !.type = update_data.type,
                !.classified_image_url =
                    IF update_data.classified_image_url # NullUrl
                    THEN update_data.classified_image_url ELSE @]

PutRow(table, row) == [id \in DOMAIN table \cup {row.id} |-> IF id = row.id THEN row ELSE table[id]]
RemoveRow(table, entry_id) == [id \in DOMAIN table \ {entry_id} |-> table[id]]

(* ------------------------------ create --------------------------------- *)
(* router, lines 289-291: the handler's `except Exception` also catches the *)
(* HTTPException raised inside its try block and raises a 500 in its place  *)
RouterRaise(status) == 500

(* Lambda handler: the error response is returned as built *)
LambdaReturn(status) == status

ErrorStatus(impl, status) == IF impl = "router" THEN RouterRaise(status) ELSE LambdaReturn(status)

(* router 140-145: only JSONDecodeError becomes a 400, the ValueError goes  *)
(* to the outer handler; Lambda 125-143: both are answered with 400          *)
CoordinateStatus(impl, outcome) ==
    IF impl = "router"
    THEN (IF outcome = "json" THEN RouterRaise(400) ELSE RouterRaise(500))
    ELSE LambdaReturn(400)

OriginalUrl(r) == <<"original", r>>

EntryData(r, rq, image_url, coords) ==
    [id |-> r, title |-> "title", description |-> "description", location |-> "location",
     coordinates |-> coords, severity |-> rq.severity, type |-> "unknown",
     image_url |-> image_url, classified_image_url |-> NullUrl, user_id |-> "user",
     created_at |-> "now"]

(* The request arrives and its severity is validated (router 126-128,      *)
(* Lambda 105-116).                                                        *)
CreateStart(r) ==
    /\ req[r].pc = "idle"
    /\ \E impl \in Impls, severity \in SeverityInputs, coordinates \in CoordinateInputs, image \in Images :
         req' = [req EXCEPT ![r] =
                    [@ EXCEPT !.impl = impl, !.severity = severity,
                              !.coordinates = coordinates, !.image = image,
                              !.pc = IF severity \in Severities THEN "save_image" ELSE "done",
                              !.status = IF severity \in Severities THEN 0 ELSE ErrorStatus(impl, 400)]]
    /\ UNCHANGED <<entries, detections, summaries, queue, consumer, delivered, deleted, reducer, loader>>

(* The Lambda handler imports save_image from services.storage, which the   *)
(* build resolves to the module services/storage.py or to the package       *)
(* services/storage (s3.py); the router's save_image answers as             *)
(* services/storage.py does.                                                *)
StorageModules(impl) ==
    IF impl = "lambda" THEN {"services/storage.py", "services/storage/s3.py"}
    ELSE {"services/storage.py"}

(* save_image: the URL of the uploaded object; when the upload fails the    *)
(* placeholder URL (services/storage.py 55-62) or None (s3.py 54-59)        *)
save_image(module, uploaded, url) ==
    IF uploaded THEN url
    ELSE IF module = "services/storage/s3.py" THEN NullUrl ELSE PlaceholderUrl

(* save_image, then the coordinates are parsed (router 137-145, Lambda 122-143) *)
SaveImage(r) ==
    /\ req[r].pc = "save_image"
    /\ \E uploaded \in BOOLEAN, module \in StorageModules(req[r].impl) :
         LET image_url == save_image(module, uploaded, OriginalUrl(r))
             parsed == ParseCoordinates(req[r].coordinates)
         IN  req' = [req EXCEPT ![r] =
                    IF parsed.outcome = "ok"
                    THEN [@ EXCEPT !.image_url = image_url, !.coords = parsed.coords, !.pc = "insert_entry"]
                    ELSE [@ EXCEPT !.image_url = image_url, !.pc = "done",
                                   !.status = CoordinateStatus(req[r].impl, parsed.outcome)]]
    /\ UNCHANGED <<entries, detections, summaries, queue, consumer, delivered, deleted, reducer, loader>>

(* a create that goes on without looking at what db_create_entry returned *)
EntryCreatedUnchecked(new_entry) == TRUE

(* `if not new_entry` (router 164, Lambda 162): db_create_entry returns the *)
(* row, or None when the insert failed                                      *)
EntryCreated(new_entry) == new_entry # NoEntry

(* db_create_entry (router 163-165, Lambda 161-172) *)
InsertEntry(r) ==
    /\ req[r].pc = "insert_entry"
    /\ \E accepted \in BOOLEAN :
         LET row == EntryData(r, req[r], req[r].image_url, req[r].coords)
             new_entry == IF accepted THEN row ELSE NoEntry
         IN  /\ entries' = IF accepted THEN PutRow(entries, row) ELSE entries
             /\ req' = [req EXCEPT ![r] =
                    IF EntryCreated(new_entry)
                    THEN [@ EXCEPT !.new_entry = new_entry, !.pc = "detect"]
                    ELSE [@ EXCEPT !.pc = "done", !.status = ErrorStatus(req[r].impl, 500)]]
    /\ UNCHANGED <<detections, summaries, queue, consumer, delivered, deleted, reducer, loader>>

DetectorOutcomes == {"detected", "unavailable", "raises"}

(* classify_image is called (router 178, Lambda 181).  "detected": the model *)
(* ran; "unavailable": classify_image returned its own fallback dict;        *)
(* "raises": the call raised into the handler's except block.                *)
Detect(r) ==
    /\ req[r].pc = "detect"
    /\ \E outcome \in DetectorOutcomes, uploaded \in BOOLEAN :
         /\ (outcome # "detected" \/ Len(req[r].image) = 0) => uploaded
         /\ LET annotated == IF uploaded THEN ClassifiedUrl ELSE PlaceholderUrl
                result == classify_image(req[r].image, outcome = "detected", annotated)
            IN  req' = [req EXCEPT ![r] =
                       IF outcome = "raises"
                       THEN [@ EXCEPT !.detector = outcome, !.pc = "fallback_update"]
                       ELSE [@ EXCEPT !.detector = outcome, !.detection_result = result, !.pc = "update_entry"]]
    /\ UNCHANGED <<entries, detections, summaries, queue, consumer, delivered, deleted, reducer, loader>>

(* where the try block goes after db_update_entry (router 197-198, Lambda 200-201) *)
AfterUpdate(updated, result) ==
    IF ~updated THEN "enqueue"
    ELSE IF Len(result.detections) > 0 THEN "save_detections" ELSE "save_summary"

(* router 193-199, Lambda 196-202 *)
UpdateEntry(r) ==
    /\ req[r].pc = "update_entry"
    /\ \E accepted \in BOOLEAN :
         LET result == req[r].detection_result
             updated == UpdateAccepted(r, accepted)
             update_data == [type |-> PrimaryCrackType(result),
                             classified_image_url |-> result.classified_image_url]
         IN  /\ entries' = IF updated THEN PutRow(entries, UpdatedRow(entries[r], update_data)) ELSE entries
             /\ req' = [req EXCEPT ![r] =
                    [@ EXCEPT !.new_entry = IF updated THEN UpdatedRow(entries[r], update_data) ELSE @,
                              !.dix = 1,
                              !.pc = AfterUpdate(updated, result)]]
    /\ UNCHANGED <<detections, summaries, queue, consumer, delivered, deleted, reducer, loader>>

(* the row built at router 204-214, Lambda 207-217 *)
InlineDetectionRow(entry_id, detection) ==
    [road_crack_id |-> entry_id, crack_type |-> detection.label, label |-> NoColumn,
     class_id |-> -1, confidence |-> detection.confidence]

(* one pass of the loop over detection_result["detections"] *)
SaveDetection(r) ==
    /\ req[r].pc = "save_detections"
    /\ \E accepted \in BOOLEAN :
         LET result == req[r].detection_result
             row == InlineDetectionRow(r, result.detections[req[r].dix])
         IN  /\ detections' = Insert(detections, row, accepted)
             /\ req' = [req EXCEPT ![r] =
                    [@ EXCEPT !.dix = @ + 1,
                              !.pc = IF req[r].dix = Len(result.detections) THEN "save_summary" ELSE @]]
    /\ UNCHANGED <<entries, summaries, queue, consumer, delivered, deleted, reducer, loader>>

SummaryData(entry_id, result) ==
    [road_crack_id |-> entry_id, total_cracks |-> result.total_cracks, crack_types |-> result.crack_types]

(* router 218-225, Lambda 221-228 *)
SaveSummary(r) ==
    /\ req[r].pc = "save_summary"
    /\ \E accepted \in BOOLEAN :
         summaries' = Insert(summaries, SummaryData(r, req[r].detection_result), accepted)
    /\ req' = [req EXCEPT ![r] = [@ EXCEPT !.pc = "enqueue"]]
    /\ UNCHANGED <<entries, detections, queue, consumer, delivered, deleted, reducer, loader>>

(* router 239-244, Lambda 241-246 *)
HandlerFallbackResult(crack_type) ==
    [total_cracks |-> 1,
     crack_types |-> <<[label |-> crack_type, count |-> 1, avg_confidence |-> 850]>>,
     detections |-> <<>>,
     classified_image_url |-> NullUrl]

(* the except block: classify_crack_image and db_update_entry               *)
(* (router 233-237, Lambda 235-239)                                        *)
FallbackUpdate(r) ==
    /\ req[r].pc = "fallback_update"
    /\ \E i \in 1 .. Len(CRACK_TYPES), accepted \in BOOLEAN :
         LET crack_type == CRACK_TYPES[i]
             updated == UpdateAccepted(r, accepted)
             update_data == [type |-> crack_type, classified_image_url |-> NullUrl]
         IN  /\ entries' = IF updated THEN PutRow(entries, UpdatedRow(entries[r], update_data)) ELSE entries
             /\ req' = [req EXCEPT ![r] =
                    [@ EXCEPT !.new_entry = IF updated THEN UpdatedRow(entries[r], update_data) ELSE @,
                              !.detection_result = HandlerFallbackResult(crack_type),
                              !.pc = "fallback_summary"]]
    /\ UNCHANGED <<detections, summaries, queue, consumer, delivered, deleted, reducer, loader>>

(* the except block: create_detection_summary (router 247-254, Lambda 249-256) *)
FallbackSummary(r) ==
    /\ req[r].pc = "fallback_summary"
    /\ \E accepted \in BOOLEAN :
         summaries' = Insert(summaries, SummaryData(r, req[r].detection_result), accepted)
    /\ req' = [req EXCEPT ![r] = [@ EXCEPT !.pc = "enqueue"]]
    /\ UNCHANGED <<entries, detections, queue, consumer, delivered, deleted, reducer, loader>>

(* a queue_detection_job that lets the failed send propagate *)
QueueDetectionJobPropagates(sent) == ~sent

(* queue_detection_job: a failed send is logged and False is returned, it   *)
(* never raises (services/detection.py 255-272)                             *)
QueueDetectionJobRaises(sent) == FALSE

(* sqs.send_message *)
SendMessage(messages, job, sent) == IF sent THEN messages (+) SetToBag({job}) ELSE messages

(* a job that carries the placeholder instead of the entry's image *)
JobWithPlaceholder(entry_id, image_url, user_id) ==
    [entry_id |-> entry_id, image_url |-> PlaceholderUrl, user_id |-> user_id]

(* yolo_job, the body of the message (services/detection.py 258-262) *)
Job(entry_id, image_url, user_id) == [entry_id |-> entry_id, image_url |-> image_url, user_id |-> user_id]

(* 'detection_result' in locals() and detection_result (router 273, Lambda 283) *)
DetectionInfoStatus(assigned) == IF assigned THEN "completed" ELSE "processing"

(* queue_detection_job, format_entry_response and the response             *)
(* (router 265-288, Lambda 266-306)                                        *)
Enqueue(r) ==
    /\ req[r].pc = "enqueue"
    /\ \E sent \in BOOLEAN :
         /\ queue' = SendMessage(queue, Job(req[r].new_entry.id, req[r].image_url, req[r].new_entry.user_id), sent)
         /\ req' = [req EXCEPT ![r] =
                IF QueueDetectionJobRaises(sent)
                THEN [@ EXCEPT !.pc = "done", !.status = ErrorStatus(req[r].impl, 500)]
                ELSE [@ EXCEPT !.pc = "done", !.status = 200, !.queued = sent,
                               !.detection_status = DetectionInfoStatus(TRUE)]]
    /\ UNCHANGED <<entries, detections, summaries, consumer, delivered, deleted, reducer, loader>>

(* --------------------------- queue consumer ---------------------------- *)
(* the picture behind an image_url *)
ImageAt(image_url) ==
    IF image_url[1] = "original" THEN req[image_url[2]].image ELSE PlaceholderImage

Min(a, b) == IF a < b THEN a ELSE b

(* SQS hands the consumer a batch of records.  Delivery is at least once:   *)
(* a message that was delivered stays eligible for another delivery.        *)
ReceiveUpTo(batch, total) ==
    /\ consumer.pc = "idle"
    /\ delivered < total
    /\ \E records \in SeqsUpTo(BagToSet(queue), Min(batch, total - delivered)) :
         /\ records # <<>>
         /\ consumer' = [IdleConsumer EXCEPT !.pc = "classify", !.records = records, !.rix = 1]
         /\ delivered' = delivered + Len(records)
    /\ UNCHANGED <<entries, detections, summaries, queue, req, deleted, reducer, loader>>

Receive == ReceiveUpTo(MaxBatch, MaxDeliveries)

(* a loop that returns after its first record *)
NextRecordReturning(c) == [c EXCEPT !.pc = "return", !.statusCode = 200]

(* the for loop moves to the next record or the handler returns (29, 77-82) *)
NextRecord(c) ==
    IF c.rix < Len(c.records)
    THEN [c EXCEPT !.rix = @ + 1, !.pc = "classify", !.dix = 0, !.detection_result = EmptyResult]
    ELSE [c EXCEPT !.pc = "return", !.statusCode = 200]

(* the consumer reads total_cracks, crack_types and detections of the       *)
(* result and never its classified_image_url (lines 44-65)                  *)
ConsumerResult(result) == [result EXCEPT !.classified_image_url = NullUrl]

(* lines 32-44 and 73-75 *)
ConsumerClassify ==
    /\ consumer.pc = "classify"
    /\ \E outcome \in DetectorOutcomes :
         LET job == consumer.records[consumer.rix]
             image == ImageAt(job.image_url)
             result == ConsumerResult(classify_image(image, outcome = "detected", ClassifiedUrl))
         IN  consumer' =
                    IF outcome = "raises"
                    THEN NextRecord([consumer EXCEPT !.failed_count = @ + 1])
                    ELSE [consumer EXCEPT !.detection_result = result, !.dix = 1,
                                          !.pc = IF Len(result.detections) > 0
                                                 THEN "save_detections" ELSE "save_summary"]
    /\ UNCHANGED <<entries, detections, summaries, queue, req, delivered, deleted, reducer, loader>>

(* the row built at lines 47-56 *)
ConsumerDetectionRow(entry_id, detection) ==
    [road_crack_id |-> entry_id, crack_type |-> NoColumn, label |-> detection.label,
     class_id |-> detection.class_id, confidence |-> detection.confidence]

(* one pass of the loop at lines 46-57 *)
ConsumerSaveDetection ==
    /\ consumer.pc = "save_detections"
    /\ \E accepted \in BOOLEAN :
         LET job == consumer.records[consumer.rix]
             result == consumer.detection_result
             row == ConsumerDetectionRow(job.entry_id, result.detections[consumer.dix])
         IN  /\ detections' = Insert(detections, row, accepted)
             /\ consumer' = [consumer EXCEPT !.dix = @ + 1,
                                !.pc = IF consumer.dix = Len(result.detections) THEN "save_summary" ELSE @]
    /\ UNCHANGED <<entries, summaries, queue, req, delivered, deleted, reducer, loader>>

(* lines 59-68 *)
ConsumerSaveSummary ==
    /\ consumer.pc = "save_summary"
    /\ \E accepted \in BOOLEAN :
         LET job == consumer.records[consumer.rix]
         IN  summaries' = Insert(summaries, SummaryData(job.entry_id, consumer.detection_result), accepted)
    /\ consumer' = NextRecord([consumer EXCEPT !.processed_count = @ + 1])
    /\ UNCHANGED <<entries, detections, queue, req, delivered, deleted, reducer, loader>>

(* the handler's result goes back to the Lambda runtime (lines 77-82) *)
ConsumerReturn ==
    /\ consumer.pc = "return"
    /\ consumer' = IdleConsumer
    /\ UNCHANGED <<entries, detections, summaries, queue, req, delivered, deleted, reducer, loader>>

(* ------------------------------ readers -------------------------------- *)
(* get_entry_by_id / get_detection_summary: None when the select fails or   *)
(* returns no row                                                           *)
EntryFound(entry_id, answered) == answered /\ entry_id \in DOMAIN entries
SummaryFound(entry_id, answered) == answered /\ NumSummaries(entry_id) > 0

(* a get_entry that reads the summary's fields without the None check *)
MergedViewUnguarded(entry_id, entry_answered, summary_answered) ==
    IF ~EntryFound(entry_id, entry_answered)
    THEN [entry_id |-> entry_id, statusCode |-> 404, status |-> ""]
    ELSE IF SummaryFound(entry_id, summary_answered)
         THEN [entry_id |-> entry_id, statusCode |-> 200, status |-> "completed"]
         ELSE [entry_id |-> entry_id, statusCode |-> 500, status |-> ""]

(* get_entry (router 64-98, Lambda 42-110) reads the tables and writes      *)
(* nothing: its answer is a function of the tables and of whether the two   *)
(* selects were answered by the store.  The row of the user who created the *)
(* entry is taken as found: no handler removes a user.                      *)
MergedView(entry_id, entry_answered, summary_answered) ==
    IF ~EntryFound(entry_id, entry_answered)
    THEN [entry_id |-> entry_id, statusCode |-> 404, status |-> ""]
    ELSE [entry_id |-> entry_id, statusCode |-> 200,
          status |-> IF SummaryFound(entry_id, summary_answered) THEN "completed" ELSE "pending"]

(* router delete_entry 338-349, Lambda delete_entry 70-122 *)
DeleteStatus(entry_id, answered, removed) ==
    IF ~EntryFound(entry_id, answered) THEN 404
    ELSE IF removed THEN 200 ELSE 500

(* the status update_entry answers with (Lambda update_entry 80-105, router  *)
(* update_entry): the lookup, then db_update_entry                          *)
UpdateStatus(entry_id, answered, updated) ==
    IF ~EntryFound(entry_id, answered) THEN 404
    ELSE IF updated THEN 200 ELSE 500

DeleteEntry(e) ==
    /\ \E answered, removed \in BOOLEAN :
         IF DeleteStatus(e, answered, removed) = 200
         THEN /\ entries' = RemoveRow(entries, e)
              /\ deleted' = deleted \cup {e}
         ELSE UNCHANGED <<entries, deleted>>
    /\ UNCHANGED <<detections, summaries, queue, req, consumer, delivered, reducer, loader>>

(* --------------------------- specification ----------------------------- *)
Next ==
    \/ \E r \in RequestIds : CreateStart(r)
    \/ \E r \in RequestIds : SaveImage(r)
    \/ \E r \in RequestIds : InsertEntry(r)
    \/ \E r \in RequestIds : Detect(r)
    \/ \E r \in RequestIds : UpdateEntry(r)
    \/ \E r \in RequestIds : SaveDetection(r)
    \/ \E r \in RequestIds : SaveSummary(r)
    \/ \E r \in RequestIds : FallbackUpdate(r)
    \/ \E r \in RequestIds : FallbackSummary(r)
    \/ \E r \in RequestIds : Enqueue(r)
    \/ Receive
    \/ ConsumerClassify
    \/ ConsumerSaveDetection
    \/ ConsumerSaveSummary
    \/ ConsumerReturn
    \/ \E e \in RequestIds : DeleteEntry(e)

Spec == Init /\ [][Next]_vars

(* ------------------------ create under fairness ------------------------ *)
(* Every call create makes to a table, the bucket or the queue comes back,  *)
(* with a result or with an error, so the step that follows it is taken.    *)
(* The call of the detector is different: model(image_path) is called with  *)
(* no timeout and nothing else in the handler runs while it is awaited      *)
(* (router 178, Lambda 181, services/detection.py 121), so nothing forces   *)
(* Detect to happen.                                                        *)
CreateFairness ==
    \A r \in RequestIds :
        /\ WF_vars(SaveImage(r))
        /\ WF_vars(InsertEntry(r))
        /\ WF_vars(UpdateEntry(r))
        /\ WF_vars(SaveDetection(r))
        /\ WF_vars(SaveSummary(r))
        /\ WF_vars(FallbackUpdate(r))
        /\ WF_vars(FallbackSummary(r))
        /\ WF_vars(Enqueue(r))

FairSpec == Init /\ [][Next]_vars /\ CreateFairness

(* ----------------- the consumer alone, on larger events ---------------- *)
(* The states in which a create has returned with its job on the queue and  *)
(* nothing stored inline: the request was valid, the upload and the entry   *)
(* insert succeeded, the detector ran, db_update_entry returned None and    *)
(* the send was accepted.                                                   *)
CreatedAndQueued ==
    \E image \in Images :
        LET rq == [IdleRequest EXCEPT !.impl = "lambda", !.severity = "minor",
                                      !.coordinates = "[10, 20]", !.image = image]
            row == EntryData(1, rq, OriginalUrl(1), ParseCoordinates(rq.coordinates).coords)
        IN  /\ entries = PutRow(<<>>, row)
            /\ detections = EmptyBag
            /\ summaries = EmptyBag
            /\ queue = SetToBag({Job(row.id, row.image_url, row.user_id)})
            /\ req = [r \in RequestIds |->
                        [rq EXCEPT !.pc = "done", !.image_url = row.image_url,
                                   !.coords = row.coordinates, !.new_entry = row,
                                   !.detector = "detected",
                                   !.detection_result = classify_image(image, TRUE, ClassifiedUrl),
                                   !.dix = 1, !.status = 200, !.queued = TRUE,
                                   !.detection_status = DetectionInfoStatus(TRUE)]]
            /\ consumer = IdleConsumer
            /\ delivered = 0
            /\ deleted = {}
            /\ reducer = IdleReducer
            /\ loader = IdleLoader

(* events of up to EventBatch records; SQS may hand the same job over more  *)
(* than once, also within one event                                         *)
NextConsumer ==
    \/ ReceiveUpTo(EventBatch, EventBatch)
    \/ ConsumerClassify
    \/ ConsumerSaveDetection
    \/ ConsumerSaveSummary
    \/ ConsumerReturn

ConsumerSpec == CreatedAndQueued /\ [][NextConsumer]_vars

(* --------------- api/main.py: the single-file application -------------- *)
(* main.py is the app that api/lambda_handler.py serves.  Its create_entry  *)
(* runs the detector first and inserts the entry afterwards; it sends no    *)
(* job.  Confidences are exact here (thousandths); an average is the pair   *)
(* of the sum and the number of confidences.                                *)
MaxBoxes == 3
RawConfidences == {700, 860}
RawBox(c, confidence) == [class_id |-> c, confidence |-> confidence]
MainImages == SeqsUpTo({RawBox(c, k) : c \in ClassIds, k \in RawConfidences}, MaxBoxes)

Mean(confidences) == [num |-> SumSeq(confidences), den |-> Len(confidences)]
Greater(a, b) == a.num * b.den > b.num * a.den
Zero == [num |-> 0, den |-> 1]

(* main.py 227-242 *)
MainCountBox(types, label, confidence) ==
    LET i == LabelIndex(types, label)
    IN  IF i > 0
        THEN [types EXCEPT ![i] =
                 [label |-> label, count |-> @.count + 1,
                  confidences |-> Append(@.confidences, confidence),
                  avg_confidence |-> Mean(Append(@.confidences, confidence))]]
        ELSE Append(types, [label |-> label, count |-> 1, confidences |-> <<confidence>>,
                            avg_confidence |-> Mean(<<confidence>>)])

RECURSIVE MainCountBoxes(_, _)
MainCountBoxes(boxes, types) ==
    IF boxes = <<>> THEN types
    ELSE MainCountBoxes(Tail(boxes),
                        MainCountBox(types, ModelName(Head(boxes).class_id), Head(boxes).confidence))

(* main.py 193-244: the detection_summary of a prediction that ran; the     *)
(* annotated picture is saved whether or not a box was found                *)
MainDetectionSummary(boxes, annotated) ==
    [classified_image_url |-> annotated,
     detections |-> [i \in 1 .. Len(boxes) |-> DetectionOf(boxes[i])],
     total_cracks |-> Len(boxes),
     crack_types |-> MainCountBoxes(boxes, <<>>)]

(* main.py 288-297: the loop keeps the first label whose avg_confidence is  *)
(* larger than every one before it                                          *)
RECURSIVE MainPrimaryFrom(_, _, _)
MainPrimaryFrom(types, highest_confidence, primary_crack_type) ==
    IF types = <<>> THEN primary_crack_type
    ELSE IF Greater(Head(types).avg_confidence, highest_confidence)
         THEN MainPrimaryFrom(Tail(types), Head(types).avg_confidence, Head(types).label)
         ELSE MainPrimaryFrom(Tail(types), highest_confidence, primary_crack_type)

MainPrimaryCrackType(crack_types) == MainPrimaryFrom(crack_types, Zero, "No cracks detected")

(* main.py 270-278: the request arrives and the picture is saved; severity  *)
(* is not looked at                                                         *)
MainCreateStart(r) ==
    /\ req[r].pc = "idle"
    /\ \E severity \in SeverityInputs, coordinates \in CoordinateInputs, image \in MainImages,
          uploaded \in BOOLEAN :
         req' = [req EXCEPT ![r] =
                    [@ EXCEPT !.impl = "main", !.severity = severity, !.coordinates = coordinates,
                              !.image = image,
                              !.image_url = IF uploaded THEN OriginalUrl(r) ELSE PlaceholderUrl,
                              !.pc = "main_classify"]]
    /\ UNCHANGED <<entries, detections, summaries, queue, consumer, delivered, deleted, reducer, loader>>

(* main.py 281-300: classify_image downloads the picture behind image_url,  *)
(* runs the model and saves the annotated picture; on any failure it        *)
(* returns a JSONResponse, and reading a key of that raises into the outer  *)
(* handler.  Then the primary type is chosen and the coordinates are parsed.*)
MainClassify(r) ==
    /\ req[r].pc = "main_classify"
    /\ \E responded, uploaded \in BOOLEAN :
         LET annotated == IF uploaded THEN ClassifiedUrl ELSE PlaceholderUrl
             boxes == IF req[r].image_url = PlaceholderUrl THEN PlaceholderImage ELSE req[r].image
             detection_summary == MainDetectionSummary(boxes, annotated)
             parsed == JsonLoads(req[r].coordinates)
         IN  req' = [req EXCEPT ![r] =
                    IF responded \/ ~parsed.ok
                    THEN [@ EXCEPT !.detector = IF responded THEN "unavailable" ELSE "detected",
                                   !.pc = "done", !.status = 500]
                    ELSE [@ EXCEPT !.detector = "detected", !.detection_result = detection_summary,
                                   !.coords = parsed.items, !.pc = "main_insert"]]
    /\ UNCHANGED <<entries, detections, summaries, queue, consumer, delivered, deleted, reducer, loader>>

(* main.py 303-320 *)
MainInsertEntry(r) ==
    /\ req[r].pc = "main_insert"
    /\ \E accepted \in BOOLEAN :
         LET result == req[r].detection_result
             row == [EntryData(r, req[r], req[r].image_url, req[r].coords)
                        EXCEPT !.type = MainPrimaryCrackType(result.crack_types),
                               !.classified_image_url = result.classified_image_url]
         IN  /\ entries' = IF accepted THEN PutRow(entries, row) ELSE entries
             /\ req' = [req EXCEPT ![r] =
                    IF accepted
                    THEN [@ EXCEPT !.new_entry = row, !.dix = 1,
                                   !.pc = IF Len(result.detections) > 0
                                          THEN "main_detections" ELSE "main_summary"]
                    ELSE [@ EXCEPT !.pc = "done", !.status = 500]]
    /\ UNCHANGED <<detections, summaries, queue, consumer, delivered, deleted, reducer, loader>>

(* one pass of the loop at main.py 323-333 *)
MainSaveDetection(r) ==
    /\ req[r].pc = "main_detections"
    /\ \E accepted \in BOOLEAN :
         LET result == req[r].detection_result
             row == InlineDetectionRow(r, result.detections[req[r].dix])
         IN  /\ detections' = Insert(detections, row, accepted)
             /\ req' = [req EXCEPT ![r] =
                    [@ EXCEPT !.dix = @ + 1,
                              !.pc = IF req[r].dix = Len(result.detections) THEN "main_summary" ELSE @]]
    /\ UNCHANGED <<entries, summaries, queue, consumer, delivered, deleted, reducer, loader>>

(* main.py 336-341 *)
MainSaveSummary(r) ==
    /\ req[r].pc = "main_summary"
    /\ \E accepted \in BOOLEAN :
         summaries' = Insert(summaries, SummaryData(r, req[r].detection_result), accepted)
    /\ req' = [req EXCEPT ![r] = [@ EXCEPT !.pc = "main_respond"]]
    /\ UNCHANGED <<entries, detections, queue, consumer, delivered, deleted, reducer, loader>>

(* main.py 344-368: a user that is not returned ends the request with the   *)
(* outer handler's 500                                                      *)
MainRespond(r) ==
    /\ req[r].pc = "main_respond"
    /\ \E user_found \in BOOLEAN :
         req' = [req EXCEPT ![r] = [@ EXCEPT !.pc = "done", !.status = IF user_found THEN 200 ELSE 500]]
    /\ UNCHANGED <<entries, detections, summaries, queue, consumer, delivered, deleted, reducer, loader>>

MainNext ==
    \/ \E r \in RequestIds : MainCreateStart(r)
    \/ \E r \in RequestIds : MainClassify(r)
    \/ \E r \in RequestIds : MainInsertEntry(r)
    \/ \E r \in RequestIds : MainSaveDetection(r)
    \/ \E r \in RequestIds : MainSaveSummary(r)
    \/ \E r \in RequestIds : MainRespond(r)

MonolithSpec == Init /\ [][MainNext]_vars

(* ----------------------- the reducers on their own ---------------------- *)
(* What the model returns for one picture: a list of result objects, each   *)
(* with its boxes.  ok is FALSE for a box whose fields cannot be read (the  *)
(* statements that read it raise).                                          *)
ResultBoxes == 2
MaxResults == 2
ResultBox(c, confidence, ok) == [class_id |-> c, confidence |-> confidence, ok |-> ok]
ModelResults ==
    SeqsUpTo(SeqsUpTo({ResultBox(c, k, ok) : c \in ClassIds, k \in RawConfidences, ok \in BOOLEAN},
                      ResultBoxes),
             MaxResults)

RECURSIVE AllBoxes(_)
AllBoxes(results) == IF results = <<>> THEN <<>> ELSE Head(results) \o AllBoxes(Tail(results))

Readable(box) == box.ok

(* api/services/detection.py 119-253 on the model's results: every box of   *)
(* every result object is read inside one try block, so a box that raises   *)
(* sends the call to the fallback dict                                      *)
ClassifyResults(results) ==
    classify_image(AllBoxes(results), \A i \in 1 .. Len(AllBoxes(results)) : Readable(AllBoxes(results)[i]),
                   ClassifiedUrl)

(* processor.py 73-92: count and summed confidence per label, then the      *)
(* mean rounded to two decimals (kept in hundredths)                        *)
ProcessorCrackTypes(types) ==
    [i \in 1 .. Len(types) |->
        [label |-> types[i].label, count |-> types[i].count,
         confidence |-> RoundHalfEven(SumSeq(types[i].confidences), types[i].count * 10)]]

(* processor.py 40-108: only results[0] is read; a box that raises is       *)
(* skipped by the except inside the loop                                    *)
process_image(results) ==
    LET boxes == SelectSeq(results[1], Readable)
    IN  [total_cracks |-> Len(boxes),
         crack_types |-> ProcessorCrackTypes(CountBoxes(boxes, <<>>)),
         detections |-> [i \in 1 .. Len(boxes) |->
                            [crack_type |-> ModelName(boxes[i].class_id),
                             confidence |-> boxes[i].confidence]]]

ReducerInit ==
    /\ entries = <<>>
    /\ detections = EmptyBag
    /\ summaries = EmptyBag
    /\ queue = EmptyBag
    /\ req = [r \in RequestIds |-> IdleRequest]
    /\ consumer = IdleConsumer
    /\ delivered = 0
    /\ deleted = {}
    /\ \E results \in ModelResults : reducer = [IdleReducer EXCEPT !.pc = "input", !.results = results]
    /\ loader = IdleLoader

NotReducer == <<entries, detections, summaries, queue, req, consumer, delivered, deleted, loader>>

(* classify_image of api/services/detection.py *)
ReduceClassifyImage ==
    /\ reducer.pc = "input"
    /\ reducer' = [reducer EXCEPT !.pc = "reduced", !.fn = "classify_image",
                                  !.out = ClassifyResults(reducer.results)]
    /\ UNCHANGED NotReducer

(* process_image of backend/services/detection/processor.py: None when the  *)
(* model returned no result object (lines 35-37)                            *)
ReduceProcessImage ==
    /\ reducer.pc = "input"
    /\ reducer' = IF reducer.results = <<>>
                  THEN [reducer EXCEPT !.pc = "none", !.fn = "process_image"]
                  ELSE [reducer EXCEPT !.pc = "reduced", !.fn = "process_image",
                                       !.out = process_image(reducer.results)]
    /\ UNCHANGED NotReducer

(* classify_image of api/main.py: a box that raises ends the call with a    *)
(* JSONResponse (lines 246-247)                                             *)
ReduceMainClassify ==
    /\ reducer.pc = "input"
    /\ LET boxes == AllBoxes(reducer.results)
       IN  reducer' = IF \A i \in 1 .. Len(boxes) : Readable(boxes[i])
                      THEN [reducer EXCEPT !.pc = "reduced", !.fn = "main",
                                           !.out = MainDetectionSummary(boxes, ClassifiedUrl)]
                      ELSE [reducer EXCEPT !.pc = "none", !.fn = "main"]
    /\ UNCHANGED NotReducer

(* the primary type create takes from the result of classify_image         *)
(* (router 180-190, Lambda 183-193)                                         *)
ChoosePrimary ==
    /\ reducer.pc = "reduced" /\ reducer.fn = "classify_image"
    /\ reducer' = [reducer EXCEPT !.pc = "chosen", !.primary_crack_type = PrimaryCrackType(reducer.out)]
    /\ UNCHANGED NotReducer

(* the primary type create of api/main.py takes from its detection_summary  *)
(* (main.py 286-297)                                                        *)
MainChoosePrimary ==
    /\ reducer.pc = "reduced" /\ reducer.fn = "main"
    /\ reducer' = [reducer EXCEPT !.pc = "chosen",
                                  !.primary_crack_type = MainPrimaryCrackType(reducer.out.crack_types)]
    /\ UNCHANGED NotReducer

ReducerNext ==
    \/ ReduceClassifyImage
    \/ ReduceProcessImage
    \/ ReduceMainClassify
    \/ ChoosePrimary
    \/ MainChoosePrimary

ReducerSpec == ReducerInit /\ [][ReducerNext]_vars

(* ------------------ get_model of services/detection -------------------- *)
(* The statements of get_model (model_loader.py 76-107) as they interleave  *)
(* when more than one caller runs in the process.  Nothing in the module    *)
(* takes a lock.                                                            *)
MaxCalls == 3
NotLoader == <<entries, detections, summaries, queue, req, consumer, delivered, deleted, reducer>>

(* lines 85-88: the cached model is returned when there is one *)
GetModel(t) ==
    /\ loader.calls[t].pc = "idle"
    /\ loader.started < MaxCalls
    /\ loader' = [loader EXCEPT
                    !.started = @ + 1,
                    !.calls[t] = IF loader.cache # None
                                 THEN [IdleCall EXCEPT !.returned = loader.cache]
                                 ELSE [IdleCall EXCEPT !.pc = "download"]]
    /\ UNCHANGED NotLoader

(* lines 90-95: download_model_from_s3 returns a path or None *)
DownloadModel(t) ==
    /\ loader.calls[t].pc = "download"
    /\ \E downloaded \in BOOLEAN :
         loader' = IF downloaded
                   THEN [loader EXCEPT !.downloads = @ + 1,
                                       !.late = IF loader.loads > 0 THEN @ + 1 ELSE @,
                                       !.calls[t] = [@ EXCEPT !.pc = "load", !.model_path = "tmp.pt"]]
                   ELSE [loader EXCEPT !.calls[t] = IdleCall]
    /\ UNCHANGED NotLoader

(* line 98: _model_cache = load_model_from_path(model_path), which is a new *)
(* model or None                                                            *)
LoadModel(t) ==
    /\ loader.calls[t].pc = "load"
    /\ \E loaded \in BOOLEAN :
         loader' = [loader EXCEPT !.loads = IF loaded THEN @ + 1 ELSE @,
                                  !.cache = IF loaded THEN loader.loads + 1 ELSE None,
                                  !.calls[t] = [@ EXCEPT !.pc = "return"]]
    /\ UNCHANGED NotLoader

(* lines 100-107: the temporary file is removed and _model_cache is returned *)
ReturnModel(t) ==
    /\ loader.calls[t].pc = "return"
    /\ loader' = [loader EXCEPT !.calls[t] = [IdleCall EXCEPT !.returned = loader.cache]]
    /\ UNCHANGED NotLoader

LoaderNext ==
    \/ \E t \in Threads : GetModel(t)
    \/ \E t \in Threads : DownloadModel(t)
    \/ \E t \in Threads : LoadModel(t)
    \/ \E t \in Threads : ReturnModel(t)

LoaderSpec == Init /\ [][LoaderNext]_vars

(* ============================== claims ================================= *)
Range(f) == {f[i] : i \in DOMAIN f}
AllLabels == Range(ModelNames) \cup Range(CRACK_TYPES)

(* a crack_detections row carries its class in crack_type (create) or in    *)
(* label (consumer)                                                         *)
RowLabel(row) == IF row.crack_type # NoColumn THEN row.crack_type ELSE row.label

CountLabel(entry_id, label) ==
    CountRows(detections, {row \in RowsOf(detections, entry_id) : RowLabel(row) = label})

SummaryCount(summary, label) ==
    LET i == LabelIndex(summary.crack_types, label)
    IN  IF i > 0 THEN summary.crack_types[i].count ELSE 0

SameDetection(a, b) ==
    /\ a.total_cracks = b.total_cracks
    /\ a.crack_types = b.crack_types
    /\ a.detections = b.detections

RECURSIVE RowsAsBag(_, _, _)
RowsAsBag(Row(_, _), entry_id, dets) ==
    IF dets = <<>> THEN EmptyBag
    ELSE SetToBag({Row(entry_id, Head(dets))}) (+) RowsAsBag(Row, entry_id, Tail(dets))

Persisted(r) == req[r].new_entry.id = r
Returned(r) == req[r].pc = "done"
ConsumerWrites == consumer.pc \in {"save_detections", "save_summary"}
ConsumerEntry == consumer.records[consumer.rix].entry_id
ConsumerImageUrl == consumer.records[consumer.rix].image_url
ViewStatus(e) == MergedView(e, TRUE, TRUE).status
Unavailable(r) == req[r].detector \in {"unavailable", "raises"}
IsFallbackSummary(summary) ==
    /\ summary.total_cracks = 1
    /\ Len(summary.crack_types) = 1
    /\ summary.crack_types[1].count = 1

(* C1: once create has stored detection results for an entry, the consumer  *)
(* processing the backup job with the same detector result changes neither  *)
(* the number of Detection rows nor the number of DetectionSummary rows of   *)
(* that entry, nor the Entry row.                                           *)
C1_ReconcileIdempotent ==
    [][
    \A e \in RequestIds :
        ( /\ Returned(e)
          /\ NumSummaries(e) > 0
          /\ ConsumerWrites
          /\ ConsumerEntry = e
          /\ ConsumerImageUrl = OriginalUrl(e)
          /\ SameDetection(consumer.detection_result, req[e].detection_result) )
        => /\ NumDetections(e)' = NumDetections(e)
           /\ NumSummaries(e)' = NumSummaries(e)
           /\ (e \in DOMAIN entries /\ e \in DOMAIN entries' => entries'[e] = entries[e])
    ]_vars

(* C2: the DetectionSummary store never holds more than one row for an entry id *)
C2_AtMostOneSummary == \A e \in RequestIds : NumSummaries(e) <= 1

(* C3: when create and the consumer have both run for an entry with the     *)
(* same detector result, the tables hold what one of the two paths alone    *)
(* stores: no Detection row beyond those of one path, one summary at most.  *)
C3_PathsConverge ==
    \A e \in RequestIds :
        ( /\ Returned(e)
          /\ consumer.pc = "return"
          /\ consumer.processed_count > 0
          /\ ConsumerEntry = e
          /\ ConsumerImageUrl = OriginalUrl(e)
          /\ SameDetection(consumer.detection_result, req[e].detection_result) )
        => /\ \/ detections \sqsubseteq RowsAsBag(InlineDetectionRow, e, req[e].detection_result.detections)
              \/ detections \sqsubseteq RowsAsBag(ConsumerDetectionRow, e, req[e].detection_result.detections)
           /\ NumSummaries(e) <= 1

(* C4: every stored summary is the reduction of the Detection rows stored   *)
(* for its entry: total_cracks is their number and each label's count is    *)
(* the number of rows with that label.                                      *)
C4_SummaryIsReduction ==
    \A e \in RequestIds : \A summary \in RowsOf(summaries, e) :
        /\ summary.total_cracks = NumDetections(e)
        /\ \A label \in AllLabels : SummaryCount(summary, label) = CountLabel(e, label)

C6_DetectedHasType ==
    \A e \in DOMAIN entries : NumSummaries(e) > 0 => entries[e].type # "unknown"

C8_FallbackCompletes ==
    \A r \in RequestIds :
        (Returned(r) /\ req[r].status = 200 /\ Unavailable(r) /\ r \in DOMAIN entries)
        => /\ entries[r].type \in Range(CRACK_TYPES)
           /\ \E summary \in RowsOf(summaries, r) : IsFallbackSummary(summary)
           /\ ViewStatus(r) = "completed"

(* C8 amended: the same, provided the store accepted the entry update and   *)
(* the summary insert of that create (the state create returns in, before   *)
(* any delivery of its job).                                                *)
C8_FallbackCompletesWhenStored ==
    \A r \in RequestIds :
        ( /\ Returned(r) /\ req[r].status = 200 /\ Unavailable(r) /\ r \in DOMAIN entries
          /\ delivered = 0
          /\ req[r].new_entry.type # "unknown"
          /\ NumSummaries(r) > 0 )
        => /\ entries[r].type \in Range(CRACK_TYPES)
           /\ NumSummaries(r) = 1
           /\ \A summary \in RowsOf(summaries, r) : IsFallbackSummary(summary)
           /\ ViewStatus(r) = "completed"

C8_Witness ==
    /\ Returned(1) /\ req[1].status = 200 /\ req[1].detector = "unavailable"
    /\ delivered = 0
    /\ 1 \in DOMAIN entries
    /\ entries[1].type = "alligator"
    /\ NumSummaries(1) = 1
    /\ ViewStatus(1) = "completed"

(* C9: a request whose coordinates parse to a 2-element list outside the    *)
(* longitude/latitude ranges gets a 4xx answer and goes no further than the *)
(* validation: no Entry row, no detector call, no job.                      *)
C9_OutOfRangeRejected ==
    \A r \in RequestIds :
        LET parsed == ParseCoordinates(req[r].coordinates)
        IN  (req[r].pc # "idle" /\ parsed.outcome = "ok" /\ ~validate_coordinates(parsed.coords))
            => /\ req[r].pc \in {"save_image", "done"}
               /\ Returned(r) => req[r].status \in 400 .. 499
               /\ r \notin DOMAIN entries
               /\ queue = EmptyBag

(* C10: a bad severity, coordinates that are not JSON and coordinates that  *)
(* are not a 2-element list are answered with a 4xx status by the router    *)
(* and by the Lambda handler.                                               *)
C10_ValidationIs4xx ==
    \A r \in RequestIds :
        ( /\ Returned(r)
          /\ \/ req[r].severity \notin Severities
             \/ ParseCoordinates(req[r].coordinates).outcome # "ok" )
        => req[r].status \in 400 .. 499

ValidationError(r) ==
    \/ req[r].severity \notin Severities
    \/ ParseCoordinates(req[r].coordinates).outcome # "ok"

(* the put of the uploaded picture succeeded: save_image returned its URL *)
ImageStored(r) == req[r].image_url = OriginalUrl(r)

(* C11: when create has rejected a request for a bad severity or malformed  *)
(* coordinates, nothing has been written: no image put, no Entry row, no    *)
(* Detection or DetectionSummary row, no job.                               *)
C11_RejectionWritesNothing ==
    \A r \in RequestIds :
        (Returned(r) /\ ValidationError(r))
        => /\ ~ImageStored(r)
           /\ r \notin DOMAIN entries
           /\ NumDetections(r) = 0
           /\ NumSummaries(r) = 0
           /\ queue = EmptyBag

(* the request got as far as db_create_entry and the insert returned no row *)
InsertFailed(r) ==
    /\ Returned(r)
    /\ ~ValidationError(r)
    /\ ~Persisted(r)

(* C12: the step of create in which the entry insert stores no row ends the *)
(* request with an error status, and a request ended that way has called no *)
(* detector, written no Detection or DetectionSummary row and sent no job.  *)
C12_InsertFailureIsFatal ==
    [][
    \A r \in RequestIds :
        /\ (req[r].pc = "insert_entry" /\ req'[r] # req[r] /\ r \notin DOMAIN entries')
              => /\ req'[r].pc = "done"
                 /\ req'[r].status \in 500 .. 599
        /\ InsertFailed(r)
              => /\ req[r].status \in 500 .. 599
                 /\ req[r].detector = ""
                 /\ r \notin DOMAIN entries
                 /\ NumDetections(r) = 0
                 /\ NumSummaries(r) = 0
                 /\ queue = EmptyBag
    ]_vars

C12_Witness ==
    /\ InsertFailed(1)
    /\ ImageStored(1)
    /\ req[1].impl = "lambda"
    /\ req[1].status = 500
    /\ queue = EmptyBag

(* the one job create sends for entry r *)
BackupJob(r) ==
    [entry_id |-> r, image_url |-> req[r].new_entry.image_url, user_id |-> req[r].new_entry.user_id]

C14_SummaryFailureLeavesPending ==
    [][
    \A r \in RequestIds :
        /\ ( /\ req[r].pc \in {"save_summary", "fallback_summary"}
             /\ req'[r] # req[r]
             /\ summaries' = summaries )
              => /\ req'[r].pc = "enqueue"
                 /\ req'[r].status = 0
                 /\ r \in DOMAIN entries' =>
                       /\ MergedView(r, TRUE, TRUE)'.statusCode = 200
                       /\ ViewStatus(r)' = "pending"
        /\ (Persisted(r) /\ r \in DOMAIN entries)
              => /\ MergedView(r, TRUE, TRUE).statusCode = 200
                 /\ NumSummaries(r) = 0 => ViewStatus(r) = "pending"
                 /\ NumSummaries(r) > 0 => ViewStatus(r) = "completed"
                 /\ Returned(r) => req[r].status = 200
    ]_vars

C14_Witness ==
    /\ Returned(1) /\ req[1].status = 200
    /\ req[1].detector = "detected"
    /\ 1 \in DOMAIN entries
    /\ entries[1].type = "pothole"
    /\ NumDetections(1) = 1
    /\ NumSummaries(1) = 0
    /\ delivered = 0
    /\ ViewStatus(1) = "pending"

(* the consumer has returned from an invocation whose last record was the   *)
(* job of entry e and was counted as processed                              *)
ConsumerProcessed(e) ==
    /\ consumer.pc = "return"
    /\ consumer.processed_count > 0
    /\ ConsumerEntry = e

(* the inline step of create stored nothing: its entry update was refused   *)
(* on the path that writes rows only after the update                       *)
InlineStoredNothing(r) ==
    /\ Returned(r) /\ Persisted(r)
    /\ req[r].detector \in {"detected", "unavailable"}
    /\ req[r].new_entry.type = "unknown"

(* C15: for an undeleted entry whose inline detection stored nothing, once  *)
(* the consumer has processed the backup job and the store has accepted its *)
(* summary, the merged view reports "completed" and the entry's type is no  *)
(* longer "unknown".                                                        *)
C15_CorrectedByConsumer ==
    \A r \in RequestIds :
        ( /\ InlineStoredNothing(r)
          /\ r \in DOMAIN entries
          /\ ConsumerProcessed(r)
          /\ NumSummaries(r) > 0 )
        => /\ ViewStatus(r) = "completed"
           /\ entries[r].type # "unknown"

(* the fields of an Entry row that detection must leave alone *)
Frozen(row) ==
    [id |-> row.id, title |-> row.title, description |-> row.description,
     location |-> row.location, coordinates |-> row.coordinates, severity |-> row.severity,
     image_url |-> row.image_url, user_id |-> row.user_id, created_at |-> row.created_at]

(* C16: no step changes a field of an existing Entry row other than type    *)
(* and classified_image_url, and every stored row carries in its other      *)
(* fields the values create inserted.                                       *)
C16_DetectionTouchesTwoFields ==
    [][
    \A e \in RequestIds :
        /\ (e \in DOMAIN entries /\ e \in DOMAIN entries')
              => Frozen(entries'[e]) = Frozen(entries[e])
        /\ e \in DOMAIN entries
              => Frozen(entries[e]) = Frozen(EntryData(e, req[e], req[e].image_url, req[e].coords))
    ]_vars

C16_Witness ==
    /\ 1 \in DOMAIN entries
    /\ entries[1].type = "pothole"
    /\ entries[1].classified_image_url = ClassifiedUrl
    /\ entries[1].image_url = OriginalUrl(1)
    /\ ConsumerProcessed(1)

(* C17: when the inline step stored nothing for an entry and the consumer   *)
(* then processes its job once with every insert accepted, the stores are   *)
(* those of a successful inline run with the same result: the entry's type  *)
(* is the primary class, the Detection rows are the rows create builds, and *)
(* there is one summary.                                                    *)
C17_ConsumerMatchesInline ==
    \A e \in RequestIds :
        ( /\ InlineStoredNothing(e)
          /\ e \in DOMAIN entries
          /\ ConsumerProcessed(e)
          /\ delivered = 1
          /\ NumDetections(e) = Len(consumer.detection_result.detections)
          /\ NumSummaries(e) = 1 )
        => /\ entries[e].type = PrimaryCrackType(consumer.detection_result)
           /\ detections = RowsAsBag(InlineDetectionRow, e, consumer.detection_result.detections)
           /\ summaries = SetToBag({SummaryData(e, consumer.detection_result)})

(* C18: while the consumer handles a job whose entry has been deleted, none *)
(* of its steps adds a Detection or DetectionSummary row for that entry id. *)
C18_DeletedEntrySkipped ==
    [][
    \A e \in RequestIds :
        ( /\ ConsumerWrites
          /\ ConsumerEntry = e
          /\ e \in deleted /\ e \notin DOMAIN entries
          /\ consumer' # consumer )
        => /\ NumDetections(e)' = NumDetections(e)
           /\ NumSummaries(e)' = NumSummaries(e)
    ]_vars

InFlight == consumer.pc \in {"classify", "save_detections", "save_summary"}

(* position of the consumer inside its event: record, then stage, then row *)
PcRank(pc) ==
    CASE pc = "classify" -> 1
      [] pc = "save_detections" -> 2
      [] pc = "save_summary" -> 3
      [] OTHER -> 4

Advances(c, d) ==
    \/ d.pc = "return"
    \/ d.rix > c.rix
    \/ d.rix = c.rix /\ PcRank(d.pc) > PcRank(c.pc)
    \/ d.rix = c.rix /\ d.pc = c.pc /\ d.dix > c.dix

(* C19: within one invocation the consumer calls the detector at most once  *)
(* per record and only moves forward; a record whose detector call fails is *)
(* counted as failed, writes nothing and is left for the next record; the   *)
(* invocation can always take its next step until it returns, and it        *)
(* returns 200 with processed_count + failed_count = number of records.     *)
C19_NoRetryInProcess ==
    [][
    /\ InFlight =>
          /\ consumer.rix \in 1 .. Len(consumer.records)
          /\ consumer.processed_count + consumer.failed_count = consumer.rix - 1
          /\ ENABLED (ConsumerClassify \/ ConsumerSaveDetection \/ ConsumerSaveSummary)
    /\ consumer.pc = "return" =>
          /\ consumer.statusCode = 200
          /\ consumer.processed_count + consumer.failed_count = Len(consumer.records)
    /\ (InFlight /\ consumer' # consumer) => Advances(consumer, consumer')
    /\ (consumer'.pc = "classify" /\ consumer' # consumer) =>
          \/ consumer.pc = "idle" /\ consumer'.rix = 1
          \/ consumer'.rix = consumer.rix + 1
    /\ (InFlight /\ consumer'.failed_count > consumer.failed_count) =>
          /\ consumer.pc = "classify"
          /\ consumer'.failed_count = consumer.failed_count + 1
          /\ consumer'.processed_count = consumer.processed_count
          /\ UNCHANGED <<entries, detections, summaries>>
    ]_vars

C19_Witness ==
    /\ consumer.pc = "return"
    /\ Len(consumer.records) = 2
    /\ consumer.processed_count = 1
    /\ consumer.failed_count = 1
    /\ consumer.statusCode = 200

(* what save_image can return for the annotated picture *)
AnnotatedUrls == {ClassifiedUrl, PlaceholderUrl}

(* every result classify_image can return after the model ran, with zero,   *)
(* one or more boxes                                                        *)
SuccessResults == {classify_image(boxes, TRUE, annotated) : boxes \in Images, annotated \in AnnotatedUrls}

(* every result it returns when the model is not loaded or inference raises *)
FailureResults == {classify_image(boxes, FALSE, annotated) : boxes \in Images, annotated \in AnnotatedUrls}

C21_PrimaryHasMaxCount ==
    \A r \in DOMAIN entries :
        LET result == req[r].detection_result
        IN  (Returned(r) /\ result.total_cracks > 0) =>
                \A i \in 1 .. Len(result.crack_types) :
                    result.crack_types[i].count <= SummaryCount(result, entries[r].type)

RawDetections == AllBoxes(reducer.results)
Reduced == reducer.pc = "reduced"

(* C22: whenever a reducer returns a result for a non-empty list of raw     *)
(* detections, the result's total_cracks is the length of that list.        *)
C22_TotalIsListLength ==
    (Reduced /\ RawDetections # <<>>) => reducer.out.total_cracks = Len(RawDetections)

(* the number a reducer stored as a label's average, as a fraction of       *)
(* integers: classify_image keeps tenths of a percent, process_image        *)
(* hundredths, main.py the quotient itself (of thousandths)                 *)
StoredAverage(fn, t) ==
    IF fn = "classify_image" THEN [num |-> t.avg_confidence, den |-> 10]
    ELSE IF fn = "process_image" THEN [num |-> t.confidence, den |-> 100]
    ELSE [num |-> t.avg_confidence.num, den |-> t.avg_confidence.den * 1000]

SameNumber(a, b) == a.num * b.den = b.num * a.den

WithLabel(boxes, label) == SelectSeq(boxes, LAMBDA box : ModelName(box.class_id) = label)

RECURSIVE SumConfidence(_)
SumConfidence(boxes) == IF boxes = <<>> THEN 0 ELSE Head(boxes).confidence + SumConfidence(Tail(boxes))

(* the mean of the confidences as a fraction in [0, 1] *)
MeanOf(boxes) == [num |-> SumConfidence(boxes), den |-> Len(boxes) * 1000]

(* every box is readable, and process_image is given one result object *)
CleanRun ==
    /\ \A i \in 1 .. Len(RawDetections) : RawDetections[i].ok
    /\ reducer.fn = "process_image" => Len(reducer.results) = 1

(* C23: in the result of a reducer, every label that occurs among the raw   *)
(* detections has an entry whose count is the number of detections with     *)
(* that label and whose average is the mean of their confidences as a       *)
(* fraction in [0, 1]; a label that does not occur has no entry.            *)
C23_GroupCountAndMean ==
    (Reduced /\ CleanRun) =>
        \A c \in ClassIds :
            LET group == WithLabel(RawDetections, ModelName(c))
                i == LabelIndex(reducer.out.crack_types, ModelName(c))
            IN  IF group = <<>> THEN i = 0
                ELSE /\ i > 0
                     /\ reducer.out.crack_types[i].count = Len(group)
                     /\ SameNumber(StoredAverage(reducer.fn, reducer.out.crack_types[i]), MeanOf(group))

FoundNothing(r) ==
    /\ Returned(r) /\ req[r].status = 200
    /\ req[r].detector = "detected"
    /\ req[r].detection_result.detections = <<>>

(* C24: when create has returned after a detection that succeeded with no   *)
(* box, the result has total 0 and no crack types, the entry's type is      *)
(* "no_cracks", a summary with total 0 and no detection row are stored,     *)
(* and the merged view reports "completed".                                 *)
C24_EmptyDetectionCompletes ==
    \A r \in RequestIds :
        FoundNothing(r) =>
            /\ req[r].detection_result.total_cracks = 0
            /\ req[r].detection_result.crack_types = <<>>
            /\ r \in DOMAIN entries
            /\ entries[r].type = "no_cracks"
            /\ \E summary \in RowsOf(summaries, r) : summary.total_cracks = 0
            /\ NumDetections(r) = 0
            /\ ViewStatus(r) = "completed"

(* C25: read, update and delete answer 404 for an id that is not in the     *)
(* Entry store and leave the three stores as they are; for an id that is in *)
(* the store none of them answers 404, whether or not the store answered    *)
(* the lookup.                                                              *)
C25_NotFoundOnlyWhenAbsent ==
    [][\A e \in RequestIds :
          IF e \notin DOMAIN entries
          THEN /\ MergedView(e, TRUE, TRUE).statusCode = 404
               /\ \A updated \in BOOLEAN : UpdateStatus(e, TRUE, updated) = 404
               /\ \A removed \in BOOLEAN : DeleteStatus(e, TRUE, removed) = 404
               /\ DeleteEntry(e) => UNCHANGED Stores
          ELSE \A answered \in BOOLEAN :
                  /\ MergedView(e, answered, TRUE).statusCode # 404
                  /\ \A updated \in BOOLEAN : UpdateStatus(e, answered, updated) # 404
                  /\ \A removed \in BOOLEAN : DeleteStatus(e, answered, removed) # 404]_vars

(* C26: an entry that create has stored carries a URL as its original image *)
(* reference: the uploaded object's or the placeholder's, never null.       *)
C26_ImageReferenceNeverNull ==
    \A r \in RequestIds :
        EntryCreated(req[r].new_entry) =>
            req[r].new_entry.image_url \in {OriginalUrl(r), PlaceholderUrl}

(* C27: every create request whose entry was persisted eventually returns.  *)
C27_PersistedCreateReturns == \A r \in RequestIds : Persisted(r) ~> Returned(r)

(* C28: the model is loaded at most once in a process, no download is made  *)
(* after a load has succeeded, and every call that returns a model returns  *)
(* the one handle of that load.                                             *)
C28_ModelLoadedOnce ==
    /\ loader.loads <= 1
    /\ loader.late = 0
    /\ \A t \in Threads : loader.calls[t].returned \in {None, 1}

Permuted(boxes, f) == [i \in 1 .. Len(boxes) |-> boxes[f[i]]]

(* the primary type create would take had the model returned the boxes as   *)
(* one result object in the given order                                     *)
PrimaryFor(fn, boxes) ==
    IF fn = "main" THEN MainPrimaryCrackType(MainDetectionSummary(boxes, ClassifiedUrl).crack_types)
    ELSE PrimaryCrackType(ClassifyResults(<<boxes>>))

(* C29: the primary type create has chosen is the one it chooses for every  *)
(* reordering of the same detections.                                       *)
C29_PrimaryIgnoresOrder ==
    reducer.pc = "chosen" =>
        \A f \in Permutations(1 .. Len(RawDetections)) :
            PrimaryFor(reducer.fn, Permuted(RawDetections, f)) = reducer.primary_crack_type

AnswersCompleted(r) == Returned(r) /\ req[r].detection_status = "completed"

SummaryStoredFor(r) ==
    /\ \E summary \in RowsOf(summaries, r) :
          /\ summary.total_cracks = req[r].detection_result.total_cracks
          /\ summary.crack_types = req[r].detection_result.crack_types
    /\ ViewStatus(r) = "completed"

(* C30: at the step with which create returns detection_info with status    *)
(* "completed", a summary of the entry with the response's total_cracks and *)
(* crack_types is in the store and a read of the entry reports "completed". *)
C30_CompletedMeansStored ==
    [][\A r \in RequestIds :
          (~Returned(r) /\ AnswersCompleted(r)') => SummaryStoredFor(r)']_vars

====
